---------------------------- MODULE Spec2Model ----------------------------
(***************************************************************************)
(* A model of svg2gif-converter.py: ConversionSettings (the sample         *)
(* schedule), ConversionModel.convert_svg_to_gif (one conversion run, as   *)
(* the worker thread executes it) and ConversionController                 *)
(* .start_conversion (the UI thread's entry point).                        *)
(*                                                                         *)
(* Durations are the source's float seconds, held here as whole            *)
(* milliseconds; arithmetic on them is exact (rational), so the model      *)
(* does not reproduce binary floating-point rounding.  A progress value    *)
(* is a fraction [num, den] with den > 0.                                  *)
(***************************************************************************)
EXTENDS Integers, Sequences, FiniteSets

\* ------------------------------------------------------------------ bounds

\* How many times the UI calls start_conversion in one behaviour; each call
\* that is accepted gets a worker thread of its own.
MaxStarts == 2
\* animation_duration ranges over 0 .. MaxDurSteps tenths of a second.
MaxDurSteps == 12
\* start_delay and end_delay range over 0 .. MaxDelaySteps steps of 150 ms.
MaxDelaySteps == 2

\* The declarations in a text given to the detection are at most this many.
MaxDecls == 2

\* --------------------------------------------------------- program constants

\* `total_time * 1000`: milliseconds per second.
MsPerSecond == 1000
\* `max(10, ...)` of frame_count.
MinFrameCount == 10
\* `max(50, duration)` of frame_duration_ms.
MinFrameDurationMs == 50
\* `int((i + 1) / frame_count * 50)`: the share of the progress bar the
\* capture loop reports.
CapturePercent == 50

DurStepMs == MsPerSecond \div 10
DelayStepMs == 3 * (MsPerSecond \div 20)

Workers == 1 .. MaxStarts

\* ------------------------------------------------------------ arithmetic

Max(a, b) == IF a >= b THEN a ELSE b

\* Python's int(n / d) on a float quotient: truncation toward zero.
IntDiv(n, d) == IF n >= 0 THEN n \div d ELSE -((-n) \div d)

\* The outcome of a `/` whose divisor is zero (ZeroDivisionError).
DivError == [num |-> 0, den |-> 0]

Zero == [num |-> 0, den |-> 1]
One == [num |-> 1, den |-> 1]

RECURSIVE GCD(_, _)
GCD(a, b) == IF b = 0 THEN a ELSE GCD(b, a % b)

\* Python's n / d on floats: ZeroDivisionError, or the quotient, held as
\* the fraction in lowest terms.
Divide(n, d) ==
    IF d = 0
    THEN DivError
    ELSE [num |-> n \div GCD(n, d), den |-> d \div GCD(n, d)]



\* ---------------------------------------------------- ConversionSettings

\* The fields of ConversionSettings the schedule and the run read; the three
\* durations in milliseconds.
ConversionSettings(fps, dur, sd, ed, fin, fout, dbg) ==
    [fps |-> fps, animation_duration |-> dur, start_delay |-> sd,
     end_delay |-> ed, fade_in_duration |-> fin, fade_out_duration |-> fout,
     debug_mode |-> dbg]

\* total_time = animation_duration + start_delay + end_delay
total_time(s) == s.animation_duration + s.start_delay + s.end_delay

\* frame_count without the lower bound of 10.
frame_count_unclamped(s) == IntDiv(total_time(s) * s.fps, MsPerSecond)

\* max(10, int(total_time * self.fps))
frame_count(s) ==
    Max(MinFrameCount, IntDiv(total_time(s) * s.fps, MsPerSecond))

\* frame_duration_ms with round() in place of int().
frame_duration_ms_rounded(s) ==
    Max(MinFrameDurationMs,
        IntDiv(2 * total_time(s) + frame_count(s), 2 * frame_count(s)))

\* max(50, int((total_time * 1000) / frame_count))
frame_duration_ms(s) ==
    Max(MinFrameDurationMs, IntDiv(total_time(s), frame_count(s)))

\* ------------------------------------------- the capture loop's progress

\* FrameProgress with the last active-phase frame set to 1.0.
FrameProgress_pinned(s, i) ==
    LET T == total_time(s)
        fc == frame_count(s)
    IN  IF i * T < s.start_delay * fc
        THEN Zero
        ELSE IF i * T < (s.start_delay + s.animation_duration) * fc
        THEN IF (i + 1) * T >= (s.start_delay + s.animation_duration) * fc
             THEN One
             ELSE Divide(i * T - s.start_delay * fc, s.animation_duration * fc)
        ELSE One

\* FrameProgress dividing current_time itself, start_delay not subtracted.
FrameProgress_no_offset(s, i) ==
    LET T == total_time(s)
        fc == frame_count(s)
    IN  IF i * T < s.start_delay * fc
        THEN Zero
        ELSE IF i * T < (s.start_delay + s.animation_duration) * fc
        THEN Divide(i * T, s.animation_duration * fc)
        ELSE One

\* FrameProgress with `<=` for the `<` of the elif.
FrameProgress_inclusive(s, i) ==
    LET T == total_time(s)
        fc == frame_count(s)
    IN  IF i * T < s.start_delay * fc
        THEN Zero
        ELSE IF i * T <= (s.start_delay + s.animation_duration) * fc
        THEN Divide(i * T - s.start_delay * fc, s.animation_duration * fc)
        ELSE One

\* The progress the loop computes for frame i: with time_per_frame =
\* total_time / frame_count and current_time = i * time_per_frame,
\*   current_time < start_delay                       -> 0.0
\*   current_time < start_delay + animation_duration  ->
\*        (current_time - start_delay) / animation_duration
\*   otherwise                                        -> 1.0
\* current_time is the fraction i * T / fc, so every comparison is taken
\* after multiplying through by fc.
FrameProgress(s, i) ==
    LET T == total_time(s)
        fc == frame_count(s)
    IN  IF i * T < s.start_delay * fc
        THEN Zero
        ELSE IF i * T < (s.start_delay + s.animation_duration) * fc
        THEN Divide(i * T - s.start_delay * fc, s.animation_duration * fc)
        ELSE One

\* progress_percent computed from the loop index i, not from i + 1.
progress_percent_from_index(s, i) == IntDiv(i * CapturePercent, frame_count(s))

\* int((i + 1) / frame_count * 50), reported after frame i was captured.
progress_percent(s, i) == IntDiv((i + 1) * CapturePercent, frame_count(s))

\* ------------------------------------------------------------ the images

\* The channel value of the background colour (255, 255, 255), and the number
\* of values a channel has.
White == 255
ChannelRange == 256

\* An RGB image of the run, every still being one flat grey: `body` is the
\* value of each channel of every pixel but the bottom-right one, `last` is
\* the blue value of the bottom-right pixel (its red and green are `body`),
\* and `opacity` records the opacity the image was last composited at.
Image(body, last, opacity) ==
    [body |-> body, last |-> last, opacity |-> opacity]

\* Two images hold the same pixels.
SamePixels(a, b) == a.body = b.body /\ a.last = b.last

\* The still of frame file i as the loop over frames leaves it in images: the
\* bottom-right pixel's blue is moved on by the index.
perturbed(still, i) == Image(still, (still + i) % ChannelRange, One)

\* The four windows of _apply_fade_effect, in frames.
start_delay_frames(s) == IntDiv(s.start_delay * s.fps, MsPerSecond)
fade_in_frames(s) == IntDiv(s.fade_in_duration * s.fps, MsPerSecond)
fade_out_frames(s) == IntDiv(s.fade_out_duration * s.fps, MsPerSecond)
end_delay_frames(s) == IntDiv(s.end_delay * s.fps, MsPerSecond)

\* 1.0 - fade_progress
OneMinus(p) ==
    IF p = DivError THEN DivError ELSE Divide(p.den - p.num, p.den)

\* The fade-in ramp counted from the frame after the window's first.
opacity_ramp_from_next(s, total_frames, i) ==
    IF i < start_delay_frames(s) THEN Zero
    ELSE IF i < start_delay_frames(s) + fade_in_frames(s)
    THEN Divide(i - start_delay_frames(s) + 1, fade_in_frames(s))
    ELSE IF i >= total_frames - end_delay_frames(s) THEN Zero
    ELSE IF i >= total_frames - end_delay_frames(s) - fade_out_frames(s)
    THEN OneMinus(Divide(i - (total_frames - end_delay_frames(s)
                                  - fade_out_frames(s)),
                         fade_out_frames(s)))
    ELSE One

\* The chain with windows that take in the frame after their last: a
\* window of no frames then holds one frame, and its ramp divides by zero.
opacity_inclusive_window(s, total_frames, i) ==
    IF i < start_delay_frames(s) THEN Zero
    ELSE IF i <= start_delay_frames(s) + fade_in_frames(s)
    THEN Divide(i - start_delay_frames(s), fade_in_frames(s))
    ELSE IF i >= total_frames - end_delay_frames(s) THEN Zero
    ELSE IF i >= total_frames - end_delay_frames(s) - fade_out_frames(s)
    THEN OneMinus(Divide(i - (total_frames - end_delay_frames(s)
                                  - fade_out_frames(s)),
                         fade_out_frames(s)))
    ELSE One

\* The opacity _apply_fade_effect gives image i of total_frames: the if/elif
\* chain of its loop, first match first.
opacity(s, total_frames, i) ==
    IF i < start_delay_frames(s) THEN Zero
    ELSE IF i < start_delay_frames(s) + fade_in_frames(s)
    THEN Divide(i - start_delay_frames(s), fade_in_frames(s))
    ELSE IF i >= total_frames - end_delay_frames(s) THEN Zero
    ELSE IF i >= total_frames - end_delay_frames(s) - fade_out_frames(s)
    THEN OneMinus(Divide(i - (total_frames - end_delay_frames(s)
                                  - fade_out_frames(s)),
                         fade_out_frames(s)))
    ELSE One

\* int(v * opacity + 255 * (1 - opacity)) of one channel value.
blend(v, op) == IntDiv(v * op.num + White * (op.den - op.num), op.den)

\* What _apply_fade_effect appends for image i: the composite over white
\* when the opacity is below 1.0, else the image itself.
faded(img, op) ==
    IF op.num < op.den
    THEN Image(blend(img.body, op), blend(img.last, op), op)
    ELSE img

\* _apply_fade_effect(images, settings); it raises when an opacity does.
fade_raises(imgs, s) ==
    \E k \in 1 .. Len(imgs) : opacity(s, Len(imgs), k - 1) = DivError

apply_fade_effect(imgs, s) ==
    [k \in 1 .. Len(imgs) |-> faded(imgs[k], opacity(s, Len(imgs), k - 1))]

\* The keyword arguments of images[0].save with one duration too few.
gif_save_call_short(imgs, duration_ms) ==
    [images |-> imgs,
     duration |-> [k \in 1 .. Len(imgs) - 1 |-> duration_ms],
     loop |-> 0, optimize |-> FALSE, disposal |-> 2]

\* images[0].save(gif_path, save_all=True, append_images=images[1:],
\* duration=[duration_ms] * len(images), loop=0, optimize=False, disposal=2)
gif_save_call(imgs, duration_ms) ==
    [images |-> imgs,
     duration |-> [k \in 1 .. Len(imgs) |-> duration_ms],
     loop |-> 0, optimize |-> FALSE, disposal |-> 2]

\* ---------------------------------------------------- detect_animation_info

\* Detected times are kept in microseconds: a value of up to three decimals,
\* in s or in ms, is a whole number of them.
UsPerSecond == 1000000
UsPerMs == 1000

\* A number as it is written: the digits before the point as a value (-1
\* when there are none) and the digits after it as a sequence (empty when
\* there is no point).  "2" is Num(2, <<>>), ".45" is Num(-1, <<4, 5>>).
Num(whole, frac) == [whole |-> whole, frac |-> frac]
NoNumber == Num(-1, <<>>)
HasDigits(n) == n.whole >= 0 \/ n.frac # <<>>

RECURSIVE Pow10(_)
Pow10(e) == IF e = 0 THEN 1 ELSE 10 * Pow10(e - 1)

\* float('0.' + digits), in microseconds.
RECURSIVE FracValue(_)
FracValue(digits) ==
    IF digits = <<>> THEN 0
    ELSE digits[Len(digits)] * Pow10(6 - Len(digits))
         + FracValue(SubSeq(digits, 1, Len(digits) - 1))

\* float(value_str) of the number as written, in microseconds.
float(n) ==
    (IF n.whole >= 0 THEN n.whole * UsPerSecond ELSE 0) + FracValue(n.frac)

\* One declaration of the text, `prop: <number><unit>;` for the CSS
\* properties and `dur="<number><unit>"` for the SMIL attribute.  A
\* declaration without a number is one whose value is a word.
Decl(prop, num, unit) == [prop |-> prop, num |-> num, unit |-> unit]

\* r'animation:[^;]*?(\d*\.?\d+)(s|ms)' and
\* r'animation-duration:\s*(\d*\.?\d+)(s|ms)': a number of at least one
\* digit, with or without digits before the point, then s or ms.
css_match(d) ==
    /\ d.prop \in {"animation", "animation-duration"}
    /\ HasDigits(d.num)
    /\ d.unit \in {"s", "ms"}

\* r'animation-delay:\s*(\d*\.?\d+)(s|ms)'
delay_match(d) ==
    /\ d.prop = "animation-delay"
    /\ HasDigits(d.num)
    /\ d.unit \in {"s", "ms"}

\* r'animation-delay:\s*\.(\d+)(s)?': the point comes first, the unit may
\* be missing, and matching stops before an m.
delay_point_match(d) ==
    /\ d.prop = "animation-delay"
    /\ d.num.whole < 0
    /\ d.num.frac # <<>>

\* r'dur="(\d+(?:\.\d+)?)(s|ms)?"': a digit comes first, the unit may be
\* missing.
smil_match(d) ==
    /\ d.prop = "dur"
    /\ d.num.whole >= 0
    /\ d.unit \in {"s", "ms", ""}

\* value = float(match[0]); if match[1] == 'ms': value = value / 1000
seconds(d) ==
    IF d.unit = "ms" THEN IntDiv(float(d.num), UsPerMs) ELSE float(d.num)

\* The greatest of the values found, 0 when nothing was.
MaxOver(S) == IF S = {} THEN 0 ELSE CHOOSE x \in S : \A y \in S : y <= x

\* The fallback for a text in which nothing was found, left out.
fallback_none(total_duration) == total_duration

\* if total_duration == 0: total_duration = 1.0
fallback(total_duration) ==
    IF total_duration = 0 THEN UsPerSecond ELSE total_duration

\* detect_animation_info(svg_content): its locals when it returns
\* (total_duration, has_delays).
detect_animation_info(svg_content) ==
    LET where == 1 .. Len(svg_content)
        matches == { k \in where : css_match(svg_content[k]) }
        delay_matches == { k \in where : delay_match(svg_content[k]) }
        delay_point_matches ==
            { k \in where : delay_point_match(svg_content[k]) }
        smil_matches == { k \in where : smil_match(svg_content[k]) }
        base_duration == MaxOver({ seconds(svg_content[k]) : k \in matches })
        max_delay ==
            MaxOver({ seconds(svg_content[k]) : k \in delay_matches }
                    \cup { FracValue(svg_content[k].num.frac) :
                             k \in delay_point_matches })
        smil == MaxOver({ seconds(svg_content[k]) : k \in smil_matches })
    IN  [base_duration |-> base_duration,
         max_delay |-> max_delay,
         has_delays |-> delay_matches # {} \/ delay_point_matches # {},
         total_duration |-> fallback(Max(base_duration + max_delay, smil))]


\* ------------------------------------------------------------------ state

VARIABLES
    is_converting,  \* ConversionModel.is_converting
    settings,       \* ConversionModel.settings (None until a run begins)
    calls,          \* start_conversion calls made so far by the UI thread
    warnings,       \* of those, the calls rejected with the warning box
    pc,             \* per worker thread: where it is in convert_svg_to_gif
    arg,            \* per worker thread: the settings argument it was given
    i,              \* per worker: the capture loop's index
    frames,         \* per worker: len(frames), the stills captured
    images,         \* per worker: len(images), the stills handed to the encoder
    driver,         \* per worker: its webdriver session, none | open | closed
    sent,           \* per worker: the progress values given to setAnimationProgress
    signals,        \* per worker: the values given to notify_progress, in order
    failed,         \* per worker: the step whose exception ended the run, or none
    gif,            \* per worker: whether images[0].save wrote the artifact
    pixels,         \* per worker: the images list, one record per image
    encoded,        \* per worker: the arguments images[0].save was called with
    log,            \* per worker: the calls made on its webdriver, in order
    view,           \* ConversionView: the selected file, the fps field, durations
    analysis,       \* a file under analysis, and what the analysis returned
    temp_dir,       \* output_dir/temp_frames exists
    temp_html,      \* temp_frames/temp.html exists
    frame_files     \* the indices n whose temp_frames/frame_{n:04d}.png exists

vars == <<is_converting, settings, calls, warnings, pc, arg, i, frames, images,
          driver, sent, signals, failed, gif, pixels, encoded, log, view,
          analysis, temp_dir, temp_html, frame_files>>

shared == <<is_converting, settings, calls, warnings>>
files == <<temp_dir, temp_html, frame_files>>

None == [fps |-> 0]

\* No call of images[0].save yet.
NoCall == [loop |-> -1]

\* A call made on the webdriver: webdriver.Chrome ("open"), execute_script of
\* setAnimationProgress ("set") and save_screenshot ("shot") for a frame
\* index, and quit.  A call is logged when it is issued, whether or not it
\* then raises.
Call(op, frame) == [op |-> op, frame |-> frame]

\* settings.svg_file, a file being known by the grey its page renders as:
\* the page shows the same flat grey at every progress, so that the
\* screenshots of a run are bit-identical.
with_svg_file(s, grey) ==
    [fps |-> s.fps, animation_duration |-> s.animation_duration,
     start_delay |-> s.start_delay, end_delay |-> s.end_delay,
     fade_in_duration |-> s.fade_in_duration,
     fade_out_duration |-> s.fade_out_duration,
     debug_mode |-> s.debug_mode, svg_file |-> grey]

\* The settings the UI starts a conversion run with: 20 fps, 0.2 s of
\* animation after a 0.15 s lead-in (ten frames), a fade-in, debug mode on,
\* so that a run passes through every step of convert_svg_to_gif.
RunSettings ==
    { with_svg_file(
          ConversionSettings(20, 2 * DurStepMs, DelayStepMs, 0, DurStepMs, 0,
                             TRUE),
          128) }

\* The settings the capture loop's schedule is examined over.
ScheduleSettings ==
    { ConversionSettings(f, d * DurStepMs, sd * DelayStepMs, ed * DelayStepMs,
                         0, 0, FALSE) :
        f \in {5, 7, 15, 20, 30}, d \in 0 .. MaxDurSteps,
        sd \in 0 .. MaxDelaySteps, ed \in 0 .. MaxDelaySteps }

\* A file: its suffix; for a GIF its frames and the ms each is shown; for
\* an SVG its text; and whether it can be opened and read.
File(kind, frames_, frame_ms, readable, content) ==
    [kind |-> kind, frames |-> frames_, frame_ms |-> frame_ms,
     readable |-> readable, content |-> content]

\* No file chosen in the view.
NoFile == File("none", 0, 0, FALSE, <<>>)

\* No file under analysis.
NoAnalysis == [file |-> NoFile, detections |-> <<>>, optimal |-> <<>>]

\* ConversionView.__init__: no file, 20 fps, 1.65 s detected and in use.
ConversionView ==
    [svg_path |-> NoFile, fps |-> 20, animation_duration |-> 1650,
     detected_duration |-> 1650, is_manual_duration |-> FALSE]

\* ConversionModel.__init__, and no thread started.
Init ==
    /\ is_converting = FALSE
    /\ settings = None
    /\ calls = 0
    /\ warnings = 0
    /\ pc = [w \in Workers |-> "idle"]
    /\ arg = [w \in Workers |-> None]
    /\ i = [w \in Workers |-> 0]
    /\ frames = [w \in Workers |-> 0]
    /\ images = [w \in Workers |-> 0]
    /\ driver = [w \in Workers |-> "none"]
    /\ sent = [w \in Workers |-> <<>>]
    /\ signals = [w \in Workers |-> <<>>]
    /\ failed = [w \in Workers |-> "none"]
    /\ gif = [w \in Workers |-> FALSE]
    /\ pixels = [w \in Workers |-> <<>>]
    /\ encoded = [w \in Workers |-> NoCall]
    /\ log = [w \in Workers |-> <<>>]
    /\ view = ConversionView
    /\ analysis = NoAnalysis
    /\ temp_dir = FALSE
    /\ temp_html = FALSE
    /\ frame_files = {}

\* ------------------------------------------------------ ConversionController

\* start_conversion, on the UI thread: the warning and return when
\* is_converting is set, else a new thread whose target is
\* convert_svg_to_gif(settings).  The thread has been started when the call
\* returns; it has not yet run its first statement.
start_conversion(s) ==
    /\ calls < MaxStarts
    /\ calls' = calls + 1
    /\ IF is_converting
       THEN /\ warnings' = warnings + 1
            /\ UNCHANGED <<pc, arg>>
       ELSE /\ pc' = [pc EXCEPT ![calls + 1] = "entry"]
            /\ arg' = [arg EXCEPT ![calls + 1] = s]
            /\ UNCHANGED warnings
    /\ UNCHANGED <<view, analysis, is_converting, settings, i, frames,
                   images, driver, sent, log, signals, failed, gif, pixels,
                   encoded, files>>

\* --------------------------------------------- ConversionModel, one run

\* notify_progress(progress, message) of worker w, after the signals `before`.
notify_progress(before, p) == Append(before, p)

goto(w, label) == pc' = [pc EXCEPT ![w] = label]

\* The handler without its notify_progress(-1).
except_silent(w, before, step) ==
    /\ signals' = [signals EXCEPT ![w] = before]
    /\ failed' = [failed EXCEPT ![w] = step]
    /\ goto(w, "finally")

\* `except Exception as e: self.notify_progress(-1, ...)`: the handler of the
\* run's one try block, entered from the statement of `step` that raised.
except(w, before, step) ==
    /\ signals' = [signals EXCEPT ![w] = notify_progress(before, -1)]
    /\ failed' = [failed EXCEPT ![w] = step]
    /\ goto(w, "finally")

\* self.settings = settings; self.is_converting = True
Entry(w) ==
    /\ pc[w] = "entry"
    /\ settings' = arg[w]
    /\ is_converting' = TRUE
    /\ goto(w, "mkdirs")
    /\ UNCHANGED <<view, analysis, calls, warnings, arg, i, frames, images,
                   driver, sent, log, signals, failed, gif, pixels, encoded,
                   files>>

\* output_dir and output_dir/temp_frames are created when missing.
MakeDirs(w) ==
    /\ pc[w] = "mkdirs"
    /\ \/ /\ temp_dir' = TRUE
          /\ goto(w, "browser")
          /\ UNCHANGED <<signals, failed>>
       \/ /\ except(w, signals[w], "mkdirs")
          /\ UNCHANGED temp_dir
    /\ UNCHANGED <<view, analysis, shared, arg, i, frames, images, driver,
                   sent, log, gif, pixels, encoded, temp_html, frame_files>>

\* ChromeDriverManager().install() and webdriver.Chrome(...): the session.
StartBrowser(w) ==
    /\ pc[w] = "browser"
    /\ \/ /\ driver' = [driver EXCEPT ![w] = "open"]
          /\ log' = [log EXCEPT ![w] = Append(@, Call("open", -1))]
          /\ goto(w, "read")
          /\ UNCHANGED <<signals, failed>>
       \/ /\ except(w, signals[w], "browser")
          /\ UNCHANGED <<driver, log>>
    /\ UNCHANGED <<view, analysis, shared, arg, i, frames, images, sent, gif,
                   pixels, encoded, files>>

\* open(settings.svg_file).read()
ReadSvg(w) ==
    /\ pc[w] = "read"
    /\ \/ /\ goto(w, "html")
          /\ UNCHANGED <<signals, failed>>
       \/ except(w, signals[w], "read")
    /\ UNCHANGED <<view, analysis, shared, arg, i, frames, images, driver,
                   sent, log, gif, pixels, encoded, files>>

\* temp_frames/temp.html is written; it cannot be once another run's cleanup
\* has removed the directory.
WriteHtml(w) ==
    /\ pc[w] = "html"
    /\ \/ /\ temp_dir
          /\ temp_html' = TRUE
          /\ goto(w, "load")
          /\ UNCHANGED <<signals, failed>>
       \/ /\ except(w, signals[w], "html")
          /\ UNCHANGED temp_html
    /\ UNCHANGED <<view, analysis, shared, arg, i, frames, images, driver,
                   sent, log, gif, pixels, encoded, temp_dir, frame_files>>

\* The page loaded in a webdriver session of its own, opened for it.
LoadPage_new_session(w) ==
    /\ pc[w] = "load"
    /\ \/ /\ goto(w, "capture")
          /\ log' = [log EXCEPT ![w] = Append(@, Call("open", -1))]
          /\ UNCHANGED <<signals, failed>>
       \/ /\ except(w, signals[w], "load")
          /\ UNCHANGED log
    /\ UNCHANGED <<shared, arg, i, frames, images, driver, sent, gif, pixels,
                   encoded, view, analysis, files>>

\* driver.get(file://temp.html), the wait, and in debug mode
\* execute_script("return getAnimationSummary();"); then the loop begins.
LoadPage(w) ==
    /\ pc[w] = "load"
    /\ \/ /\ goto(w, "capture")
          /\ UNCHANGED <<signals, failed>>
       \/ except(w, signals[w], "load")
    /\ UNCHANGED <<view, analysis, shared, arg, i, frames, images, driver,
                   sent, log, gif, pixels, encoded, files>>

after_capture(s) == IF s.debug_mode THEN "debuglog" ELSE "quit"

\* One iteration of `for i in range(frame_count)` that raises nothing: the
\* progress is computed and given to setAnimationProgress, the screenshot is
\* saved and appended to frames, and the percentage is reported.
CaptureOk(w) ==
    /\ pc[w] = "capture"
    /\ FrameProgress(arg[w], i[w]) # DivError
    /\ temp_dir
    /\ sent' = [sent EXCEPT ![w] = Append(@, FrameProgress(arg[w], i[w]))]
    /\ log' = [log EXCEPT
                ![w] = Append(Append(@, Call("set", i[w])), Call("shot", i[w]))]
    /\ frame_files' = frame_files \cup {i[w]}
    /\ frames' = [frames EXCEPT ![w] = @ + 1]
    /\ signals' = [signals EXCEPT
                     ![w] = notify_progress(@, progress_percent(arg[w], i[w]))]
    /\ i' = [i EXCEPT ![w] = @ + 1]
    /\ IF i[w] + 1 < frame_count(arg[w])
       THEN UNCHANGED pc
       ELSE goto(w, after_capture(arg[w]))
    /\ UNCHANGED <<view, analysis, shared, arg, images, driver, failed, gif,
                   pixels, encoded, temp_dir, temp_html>>

\* An iteration whose exception is swallowed: the loop goes on to i + 1.
CaptureRaise_continue(w) ==
    /\ pc[w] = "capture"
    /\ i' = [i EXCEPT ![w] = @ + 1]
    /\ IF i[w] + 1 < frame_count(arg[w])
       THEN UNCHANGED pc
       ELSE goto(w, after_capture(arg[w]))
    /\ UNCHANGED <<view, analysis, shared, arg, frames, images, driver, sent,
                   log, signals, failed, gif, pixels, encoded, files>>

\* One iteration that raises: in the progress computation (a division by
\* zero), in execute_script, or in save_screenshot after the progress was
\* set.  The loop is left for the handler.
CaptureRaise(w) ==
    /\ pc[w] = "capture"
    /\ \E at \in {"set_progress", "screenshot"} :
          LET p == FrameProgress(arg[w], i[w])
          IN  /\ p = DivError => at = "set_progress"
              /\ sent' = [sent EXCEPT
                            ![w] = IF at = "screenshot" THEN Append(@, p) ELSE @]
              /\ log' = [log EXCEPT
                    ![w] = IF p = DivError THEN @
                           ELSE IF at = "screenshot"
                           THEN Append(Append(@, Call("set", i[w])),
                                       Call("shot", i[w]))
                           ELSE Append(@, Call("set", i[w]))]
              /\ except(w, signals[w],
                        IF p = DivError THEN "zero_division" ELSE at)
    /\ UNCHANGED <<view, analysis, shared, arg, i, frames, images, driver,
                   gif, pixels, encoded, files>>

\* In debug mode, json.dump(debug_logs) beside the artifact.
SaveDebugLog(w) ==
    /\ pc[w] = "debuglog"
    /\ \/ /\ goto(w, "quit")
          /\ UNCHANGED <<signals, failed>>
       \/ except(w, signals[w], "debuglog")
    /\ UNCHANGED <<view, analysis, shared, arg, i, frames, images, driver,
                   sent, log, gif, pixels, encoded, files>>

\* driver.quit()
QuitDriver(w) ==
    /\ pc[w] = "quit"
    /\ driver' = [driver EXCEPT ![w] = "closed"]
    /\ log' = [log EXCEPT ![w] = Append(@, Call("quit", -1))]
    /\ goto(w, "process")
    /\ UNCHANGED <<view, analysis, shared, arg, i, frames, images, sent,
                   signals, failed, gif, pixels, encoded, files>>

fade_requested(s) == s.fade_in_duration > 0 \/ s.fade_out_duration > 0

\* notify_progress(75), then every frame file is opened, cropped, flattened
\* and perturbed; with a fade requested, notify_progress(80) and
\* _apply_fade_effect.  Image.open raises when a frame file is gone, and
\* _apply_fade_effect when one of its divisions is by zero.
ProcessImages(w) ==
    /\ pc[w] = "process"
    /\ \/ /\ (0 .. frames[w] - 1) \subseteq frame_files
          /\ LET opened == [k \in 1 .. frames[w] |->
                               perturbed(arg[w].svg_file, k - 1)]
             IN  /\ fade_requested(arg[w]) => ~fade_raises(opened, arg[w])
                 /\ pixels' = [pixels EXCEPT
                       ![w] = IF fade_requested(arg[w])
                              THEN apply_fade_effect(opened, arg[w])
                              ELSE opened]
          /\ images' = [images EXCEPT ![w] = frames[w]]
          /\ signals' = [signals EXCEPT
                ![w] = IF fade_requested(arg[w])
                       THEN notify_progress(notify_progress(@, 75), 80)
                       ELSE notify_progress(@, 75)]
          /\ goto(w, "save")
          /\ UNCHANGED failed
       \/ /\ \E at \in {"process", "fade_zero_division"} :
                IF at = "process"
                THEN except(w, notify_progress(signals[w], 75), "process")
                ELSE /\ (0 .. frames[w] - 1) \subseteq frame_files
                     /\ fade_requested(arg[w])
                     /\ fade_raises([k \in 1 .. frames[w] |->
                                       perturbed(arg[w].svg_file, k - 1)],
                                    arg[w])
                     /\ except(w,
                               notify_progress(
                                   notify_progress(signals[w], 75), 80),
                               "fade_zero_division")
          /\ UNCHANGED <<view, analysis, images, pixels>>
    /\ UNCHANGED <<view, analysis, shared, arg, i, frames, driver, sent, log,
                   gif, encoded, files>>

\* images[0].save(gif_path, save_all=True, append_images=images[1:], ...),
\* then notify_progress(85).
SaveGif(w) ==
    /\ pc[w] = "save"
    /\ \/ /\ gif' = [gif EXCEPT ![w] = TRUE]
          /\ encoded' = [encoded EXCEPT
                ![w] = gif_save_call(pixels[w], frame_duration_ms(arg[w]))]
          /\ signals' = [signals EXCEPT ![w] = notify_progress(@, 85)]
          /\ goto(w, "cleanup")
          /\ UNCHANGED failed
       \/ /\ except(w, signals[w], "save")
          /\ UNCHANGED <<gif, encoded>>
    /\ UNCHANGED <<view, analysis, shared, arg, i, frames, images, driver,
                   sent, log, pixels, files>>

\* notify_progress(90); os.remove of every path in frames, temp.html
\* unlinked, temp_frames removed when that leaves it empty; every error in
\* here is swallowed.
Cleanup(w) ==
    /\ pc[w] = "cleanup"
    /\ signals' = [signals EXCEPT ![w] = notify_progress(@, 90)]
    /\ frame_files' = frame_files \ (0 .. frames[w] - 1)
    /\ temp_html' = FALSE
    /\ temp_dir' = (temp_dir /\ frame_files' # {})
    /\ goto(w, "complete")
    /\ UNCHANGED <<view, analysis, shared, arg, i, frames, images, driver,
                   sent, log, failed, gif, pixels, encoded>>

\* notify_progress(100), the last statement of the try block.
Complete(w) ==
    /\ pc[w] = "complete"
    /\ signals' = [signals EXCEPT ![w] = notify_progress(@, 100)]
    /\ goto(w, "finally")
    /\ UNCHANGED <<view, analysis, shared, arg, i, frames, images, driver,
                   sent, log, failed, gif, pixels, encoded, files>>

\* The thread ending with the flag left as it is.
Finally_keeps_flag(w) ==
    /\ pc[w] = "finally"
    /\ goto(w, "done")
    /\ UNCHANGED <<view, analysis, shared, arg, i, frames, images, driver,
                   sent, log, signals, failed, gif, pixels, encoded, files>>

\* finally: self.is_converting = False; the thread ends.
Finally(w) ==
    /\ pc[w] = "finally"
    /\ is_converting' = FALSE
    /\ goto(w, "done")
    /\ UNCHANGED <<view, analysis, settings, calls, warnings, arg, i, frames,
                   images, driver, sent, log, signals, failed, gif, pixels,
                   encoded, files>>

\* convert_svg_to_gif as worker w executes it, a step at a time.
convert_svg_to_gif(w) ==
    \/ Entry(w)
    \/ MakeDirs(w)
    \/ StartBrowser(w)
    \/ ReadSvg(w)
    \/ WriteHtml(w)
    \/ LoadPage(w)
    \/ CaptureOk(w)
    \/ CaptureRaise(w)
    \/ SaveDebugLog(w)
    \/ QuitDriver(w)
    \/ ProcessImages(w)
    \/ SaveGif(w)
    \/ Cleanup(w)
    \/ Complete(w)
    \/ Finally(w)

Next ==
    \/ \E s \in RunSettings : start_conversion(s)
    \/ \E w \in Workers : convert_svg_to_gif(w)

Spec == Init /\ [][Next]_vars

\* ------------------------------------------------- the schedule of one run

\* A run that has reached the capture loop: flag set, directory and page
\* made, session open, no frame captured yet.
InitSchedule ==
    /\ \E s \in ScheduleSettings :
          /\ settings = s
          /\ arg = [w \in Workers |-> IF w = 1 THEN s ELSE None]
    /\ is_converting = TRUE
    /\ calls = 1
    /\ warnings = 0
    /\ pc = [w \in Workers |-> IF w = 1 THEN "capture" ELSE "idle"]
    /\ i = [w \in Workers |-> 0]
    /\ frames = [w \in Workers |-> 0]
    /\ images = [w \in Workers |-> 0]
    /\ driver = [w \in Workers |-> IF w = 1 THEN "open" ELSE "none"]
    /\ sent = [w \in Workers |-> <<>>]
    /\ signals = [w \in Workers |-> <<>>]
    /\ failed = [w \in Workers |-> "none"]
    /\ gif = [w \in Workers |-> FALSE]
    /\ pixels = [w \in Workers |-> <<>>]
    /\ encoded = [w \in Workers |-> NoCall]
    /\ log = [w \in Workers |->
                IF w = 1 THEN <<Call("open", -1)>> ELSE <<>>]
    /\ view = ConversionView
    /\ analysis = NoAnalysis
    /\ temp_dir = TRUE
    /\ temp_html = TRUE
    /\ frame_files = {}

\* The loop alone: an iteration that succeeds, or one that raises.
NextSchedule == CaptureOk(1) \/ CaptureRaise(1)

SpecSchedule == InitSchedule /\ [][NextSchedule]_vars

\* ------------------------------------------------ the assembly of one run

\* The settings the image processing and the encoding are examined over:
\* delays and fades that fall on and between frame boundaries, a fade
\* shorter than one frame, a fade-in longer than the animation, and no fade
\* at all.
AssembleSettings ==
    { with_svg_file(
          ConversionSettings(f, d * DurStepMs, sd * DelayStepMs,
                             ed * DelayStepMs, fin * DurStepMs,
                             fout * DurStepMs, FALSE),
          grey) :
        f \in {5, 10, 20}, d \in {2, 10},
        sd \in 0 .. MaxDelaySteps, ed \in 0 .. MaxDelaySteps,
        fin \in {0, 1, 10}, fout \in {0, 2}, grey \in {0, 128, White} }

\* The calls a capture loop of n iterations leaves in the log, between the
\* session's opening and its quit.
captured_log(n) ==
    <<Call("open", -1)>>
    \o [k \in 1 .. 2 * n |->
          Call(IF k % 2 = 1 THEN "set" ELSE "shot", (k - 1) \div 2)]
    \o <<Call("quit", -1)>>

\* A run whose capture loop has finished and whose session has quit: every
\* frame file written, every percentage reported, no image opened yet.
InitAssemble ==
    /\ \E s \in AssembleSettings :
          /\ settings = s
          /\ arg = [w \in Workers |-> IF w = 1 THEN s ELSE None]
          /\ i = [w \in Workers |-> IF w = 1 THEN frame_count(s) ELSE 0]
          /\ frames = [w \in Workers |-> IF w = 1 THEN frame_count(s) ELSE 0]
          /\ sent = [w \in Workers |->
                       IF w = 1
                       THEN [k \in 1 .. frame_count(s) |-> FrameProgress(s, k - 1)]
                       ELSE <<>>]
          /\ signals = [w \in Workers |->
                          IF w = 1
                          THEN [k \in 1 .. frame_count(s) |->
                                  progress_percent(s, k - 1)]
                          ELSE <<>>]
          /\ log = [w \in Workers |->
                      IF w = 1 THEN captured_log(frame_count(s)) ELSE <<>>]
          /\ frame_files = 0 .. frame_count(s) - 1
    /\ is_converting = TRUE
    /\ calls = 1
    /\ warnings = 0
    /\ pc = [w \in Workers |-> IF w = 1 THEN "process" ELSE "idle"]
    /\ images = [w \in Workers |-> 0]
    /\ driver = [w \in Workers |-> IF w = 1 THEN "closed" ELSE "none"]
    /\ failed = [w \in Workers |-> "none"]
    /\ gif = [w \in Workers |-> FALSE]
    /\ pixels = [w \in Workers |-> <<>>]
    /\ encoded = [w \in Workers |-> NoCall]
    /\ view = ConversionView
    /\ analysis = NoAnalysis
    /\ temp_dir = TRUE
    /\ temp_html = TRUE

NextAssemble ==
    \/ ProcessImages(1)
    \/ SaveGif(1)
    \/ Cleanup(1)
    \/ Complete(1)
    \/ Finally(1)

SpecAssemble == InitAssemble /\ [][NextAssemble]_vars

\* ------------------------------------------------------------ ConversionView

\* The files a user may pick: an SVG declaring one second of animation,
\* GIFs of ten frames shown 10 ms and 2000 ms each, and a file of another
\* type.
Files ==
    { File("svg", 0, 0, TRUE,
           <<Decl("animation-duration", Num(1, <<>>), "s")>>),
      File("gif", 10, 10, TRUE, <<>>),
      File("gif", 10, 2000, TRUE, <<>>),
      File("other", 0, 0, TRUE, <<>>) }

\* What may stand in the fps field when a key is released: text that is not
\* a number, or a number.
FpsEntries ==
    { [valid |-> FALSE, value |-> 0] }
    \cup { [valid |-> TRUE, value |-> v] : v \in {3, 31} }

\* The fps field's bounds and the default of the view.
MinFps == 5
MaxFps == 30
DefaultFps == 20

\* The duration calculate_optimal_settings answers with when it cannot
\* analyse the file, and the view's initial one: 1.65 s.
DefaultDurationMs == 1650

\* `except: return 1.65, 20`, entered when open() or read() raises.
optimal_for_unreadable_svg == <<DefaultDurationMs, DefaultFps>>

\* calculate_optimal_settings(file_path) as <<duration in ms, fps>>: for a
\* GIF the summed frame durations and int(frame_count / duration_seconds),
\* 20 when that rate is not above zero (get_gif_info answers 0, 0, 0 for a
\* file it cannot open); for an SVG the detected duration and 20; 1.65 s
\* and 20 for anything else and for an SVG that cannot be read.
calculate_optimal_settings(f) ==
    IF f.kind = "gif"
    THEN LET total == IF f.readable THEN f.frames * f.frame_ms ELSE 0
         IN  <<total,
               IF total > 0 /\ f.frames > 0
               THEN IntDiv(f.frames * MsPerSecond, total)
               ELSE DefaultFps>>
    ELSE IF f.kind = "svg"
    THEN IF f.readable
         THEN <<IntDiv(detect_animation_info(f.content).total_duration,
                       UsPerMs),
                DefaultFps>>
         ELSE optimal_for_unreadable_svg
    ELSE <<DefaultDurationMs, DefaultFps>>

\* What _on_fps_changed leaves in self.fps for the field's content.
on_fps_changed(entry) ==
    IF ~entry.valid THEN DefaultFps
    ELSE IF entry.value < MinFps THEN MinFps
    ELSE IF entry.value > MaxFps THEN MaxFps
    ELSE entry.value

\* A key released in the fps field.
OnFpsChanged ==
    /\ \E entry \in FpsEntries :
          view' = [view EXCEPT !.fps = on_fps_changed(entry)]
    /\ UNCHANGED <<analysis, shared, pc, arg, i, frames, images, driver,
                   sent, log, signals, failed, gif, pixels, encoded, files>>

\* _on_manual_duration_changed: a positive value further than 0.01 s from
\* the detected one is taken as a manual duration, one within 0.01 s puts
\* the view back in automatic mode, anything else is ignored.
OnManualDurationChanged ==
    /\ \E manual_value \in {0, 500, 1000} :
          view' =
              IF manual_value <= 0 THEN view
              ELSE IF manual_value - view.detected_duration > 10
                      \/ view.detected_duration - manual_value > 10
              THEN [view EXCEPT !.animation_duration = manual_value,
                                !.is_manual_duration = TRUE]
              ELSE [view EXCEPT !.animation_duration = view.detected_duration,
                                !.is_manual_duration = FALSE]
    /\ UNCHANGED <<analysis, shared, pc, arg, i, frames, images, driver,
                   sent, log, signals, failed, gif, pixels, encoded, files>>

\* _browse_svg, _on_file_selected and _auto_configure: the file's duration
\* becomes the detected one (and the one in use unless a manual duration
\* is), and self.fps.set(int(fps)).
OnFileSelected ==
    /\ \E f \in Files :
          LET optimal == calculate_optimal_settings(f)
          IN  view' = [view EXCEPT
                  !.svg_path = f,
                  !.detected_duration = optimal[1],
                  !.animation_duration =
                      IF view.is_manual_duration THEN @ ELSE optimal[1],
                  !.fps = optimal[2]]
    /\ UNCHANGED <<analysis, shared, pc, arg, i, frames, images, driver,
                   sent, log, signals, failed, gif, pixels, encoded, files>>

\* _reset_to_auto
ResetToAuto ==
    /\ view' = [view EXCEPT !.is_manual_duration = FALSE,
                            !.animation_duration = view.detected_duration]
    /\ UNCHANGED <<analysis, shared, pc, arg, i, frames, images, driver,
                   sent, log, signals, failed, gif, pixels, encoded, files>>

\* _start_conversion: the error box when no file is chosen, else the
\* settings are built from the view's fields and given to the controller.
StartConversion ==
    /\ view.svg_path # NoFile
    /\ start_conversion(
          with_svg_file(
              ConversionSettings(view.fps, view.animation_duration, 0, 0, 0, 0,
                                 FALSE),
              128))

NextUI ==
    \/ OnFpsChanged
    \/ OnManualDurationChanged
    \/ OnFileSelected
    \/ ResetToAuto
    \/ StartConversion

SpecUI == Init /\ [][NextUI]_vars

\* --------------------------------------------------- the analysis of a file

\* The declarations a text is made of: the four timed properties, each with
\* a whole number, a decimal, a decimal without leading digit, or a word
\* for a value, and with the unit s, ms or none.
Declarations ==
    { Decl(prop, num, unit) :
        prop \in {"animation", "animation-duration", "animation-delay", "dur"},
        num \in {Num(2, <<>>), Num(1, <<5>>), Num(-1, <<4, 5>>)},
        unit \in {"s", "ms", ""} }
    \cup { Decl(prop, NoNumber, "") :
             prop \in {"animation", "animation-duration", "animation-delay",
                       "dur"} }

Texts == UNION { [1 .. n -> Declarations] : n \in 0 .. MaxDecls }

\* The files an analysis is made of: an SVG that cannot be read and one of
\* each text; GIFs of one and of ten frames, each shown 0, 10, 100 or
\* 2000 ms, that can be opened or not; and a file of another type.
AnalysedFiles ==
    { File("svg", 0, 0, FALSE, <<>>) }
    \cup { File("svg", 0, 0, TRUE, text) : text \in Texts }
    \cup { File("gif", n, ms, readable, <<>>) :
             n \in {1, 10}, ms \in {0, 10, 100, 2000}, readable \in BOOLEAN }
    \cup { File("other", 0, 0, TRUE, <<>>) }

\* A file chosen for analysis.
InitAnalysis ==
    /\ \E f \in AnalysedFiles :
          analysis = [file |-> f, detections |-> <<>>, optimal |-> <<>>]
    /\ is_converting = FALSE
    /\ settings = None
    /\ calls = 0
    /\ warnings = 0
    /\ pc = [w \in Workers |-> "idle"]
    /\ arg = [w \in Workers |-> None]
    /\ i = [w \in Workers |-> 0]
    /\ frames = [w \in Workers |-> 0]
    /\ images = [w \in Workers |-> 0]
    /\ driver = [w \in Workers |-> "none"]
    /\ sent = [w \in Workers |-> <<>>]
    /\ signals = [w \in Workers |-> <<>>]
    /\ failed = [w \in Workers |-> "none"]
    /\ gif = [w \in Workers |-> FALSE]
    /\ pixels = [w \in Workers |-> <<>>]
    /\ encoded = [w \in Workers |-> NoCall]
    /\ log = [w \in Workers |-> <<>>]
    /\ view = ConversionView
    /\ temp_dir = FALSE
    /\ temp_html = FALSE
    /\ frame_files = {}

\* detect_animation_info called on the file's text, a first and a second
\* time.
Detect ==
    /\ analysis.file.kind = "svg"
    /\ analysis.file.readable
    /\ Len(analysis.detections) < 2
    /\ analysis' = [analysis EXCEPT
          !.detections = Append(@, detect_animation_info(analysis.file.content))]
    /\ UNCHANGED <<shared, pc, arg, i, frames, images, driver, sent, log,
                   signals, failed, gif, pixels, encoded, view, files>>

\* calculate_optimal_settings called on the file.
Analyze ==
    /\ analysis.optimal = <<>>
    /\ analysis' = [analysis EXCEPT
          !.optimal = calculate_optimal_settings(analysis.file)]
    /\ UNCHANGED <<shared, pc, arg, i, frames, images, driver, sent, log,
                   signals, failed, gif, pixels, encoded, view, files>>

NextAnalysis == Detect \/ Analyze

SpecAnalysis == InitAnalysis /\ [][NextAnalysis]_vars


\* ===================================================================
\* Properties
\* ===================================================================

Started(w) == arg[w] # None

\* Frame k (from 0) of settings s is sampled at t = k * total_time / fc;
\* the phase it falls in, by the schedule's own definition.
InLeadIn(s, k) == k * total_time(s) < s.start_delay * frame_count(s)
InActive(s, k) ==
    /\ s.start_delay * frame_count(s) <= k * total_time(s)
    /\ k * total_time(s) < (s.start_delay + s.animation_duration) * frame_count(s)
LastActive(s, k) ==
    /\ InActive(s, k)
    /\ k + 1 < frame_count(s) => ~InActive(s, k + 1)

\* Comparison of two progress values, each a fraction with den > 0.
FracEq(a, b) == a.num * b.den = b.num * a.den
FracLess(a, b) == a.num * b.den < b.num * a.den
FracLeq(a, b) == a.num * b.den <= b.num * a.den
IsFraction(p) == p.den > 0
Last(q) == q[Len(q)]

\* C1: for durations >= 0 and fps >= 1, frame_count is max(10, floor(total
\* seconds * fps)): never below 10, the floor of the product above that; one
\* second at 20 fps gives 20 frames, 0.2 s at 20 fps gives 10.
C1_FrameCountIsClampedFloor ==
    \A w \in Workers :
        Started(w) =>
            LET s == arg[w]
                fc == frame_count(s)
                x == total_time(s) * s.fps
            IN  /\ fc >= 10
                /\ fc > 10 => (fc * 1000 <= x /\ x < (fc + 1) * 1000)
                /\ fc = 10 => x < 11 * 1000
                /\ (total_time(s) = 1000 /\ s.fps = 20) => fc = 20
                /\ (total_time(s) = 200 /\ s.fps = 20) => fc = 10

\* C1's case: 0.2 s at 20 fps, where the product is 4 and the loop has run
\* its ten frames.
C1_Witness ==
    /\ arg[1] # None
    /\ arg[1].animation_duration = 200
    /\ total_time(arg[1]) = 200
    /\ arg[1].fps = 20
    /\ frames[1] = 10
    /\ pc[1] # "capture"

\* C2 as stated: frame_duration_ms is max(50, the quotient total ms /
\* frame_count rounded to the nearest millisecond).
C2_DurationIsRounded ==
    \A w \in Workers :
        Started(w) =>
            LET s == arg[w]
                fc == frame_count(s)
                T == total_time(s)
                d == frame_duration_ms(s)
            IN  /\ d >= 50
                /\ d > 50 => (2 * (T - d * fc) <= fc /\ 2 * (d * fc - T) <= fc)
                /\ d = 50 => 2 * T <= 101 * fc

\* C2 amended: frame_duration_ms is max(50, the quotient total ms /
\* frame_count truncated to a whole millisecond), never below 50.
C2_DurationIsTruncated ==
    \A w \in Workers :
        Started(w) =>
            LET s == arg[w]
                fc == frame_count(s)
                T == total_time(s)
                d == frame_duration_ms(s)
            IN  /\ d >= 50
                /\ d > 50 => (d * fc <= T /\ T < (d + 1) * fc)
                /\ d = 50 => T < 51 * fc

\* C2's case: 1.1 s at 15 fps, 16 frames, 1100 / 16 = 68.75 and the frame
\* duration 68, after the loop has run.
C2_Witness ==
    /\ arg[1] # None
    /\ total_time(arg[1]) = 1100
    /\ arg[1].fps = 15
    /\ frame_count(arg[1]) = 16
    /\ frame_duration_ms(arg[1]) = 68
    /\ frames[1] = 16

\* C3 as stated: with animation_duration > 0 the last frame sampled in the
\* active phase is sent progress exactly 1.0, and with end_delay = 0 that is
\* the frame of index frame_count - 1.
C3_LastActiveFrameIsOne ==
    \A w \in Workers :
        (Started(w) /\ arg[w].animation_duration > 0) =>
            \A k \in 1 .. Len(sent[w]) :
                /\ LastActive(arg[w], k - 1) => FracEq(sent[w][k], One)
                /\ (arg[w].end_delay = 0 /\ k = frame_count(arg[w]))
                      => FracEq(sent[w][k], One)

\* C3 amended: with animation_duration > 0 every active-phase frame, the
\* last one included, is sent (t - start_delay) / animation_duration, which
\* is below 1.0; 1.0 is sent only to lead-out frames, so with end_delay = 0
\* no frame of the run, the one of index frame_count - 1 included, gets 1.0.
C3_ActiveFramesStayBelowOne ==
    \A w \in Workers :
        (Started(w) /\ arg[w].animation_duration > 0) =>
            \A k \in 1 .. Len(sent[w]) :
                /\ IsFraction(sent[w][k])
                /\ InActive(arg[w], k - 1) => FracLess(sent[w][k], One)
                /\ FracEq(sent[w][k], One) =>
                      (k - 1) * total_time(arg[w]) >=
                        (arg[w].start_delay + arg[w].animation_duration)
                          * frame_count(arg[w])
                /\ arg[w].end_delay = 0 => FracLess(sent[w][k], One)

\* C3's case: a finished loop over a positive animation_duration with a
\* lead-in and no lead-out, whose last frame was active.
C3_Witness ==
    /\ arg[1] # None
    /\ arg[1].animation_duration > 0
    /\ arg[1].start_delay > 0
    /\ arg[1].end_delay = 0
    /\ Len(sent[1]) = frame_count(arg[1])
    /\ LastActive(arg[1], frame_count(arg[1]) - 1)
    /\ failed[1] = "none"

\* C4: frame i, sampled at t = i * total_time / frame_count, is sent 0.0
\* when t < start_delay, (t - start_delay) / animation_duration when
\* start_delay <= t < start_delay + animation_duration, and 1.0 otherwise;
\* every value sent lies in [0, 1] and the values never decrease with i.
C4_ProgressMapping ==
    \A w \in Workers :
        Started(w) =>
            \A k \in 1 .. Len(sent[w]) :
                LET s == arg[w]
                    p == sent[w][k]
                    fc == frame_count(s)
                IN  /\ IsFraction(p)
                    /\ FracLeq(Zero, p)
                    /\ FracLeq(p, One)
                    /\ k > 1 => FracLeq(sent[w][k - 1], p)
                    /\ InLeadIn(s, k - 1) => FracEq(p, Zero)
                    /\ InActive(s, k - 1) =>
                          p.num * (s.animation_duration * fc) =
                            ((k - 1) * total_time(s) - s.start_delay * fc) * p.den
                    /\ (~InLeadIn(s, k - 1) /\ ~InActive(s, k - 1))
                          => FracEq(p, One)

\* C4's case: a finished loop that went through the three phases: a frame
\* held at 0 in the lead-in, one strictly inside the animation, one at 1.
C4_Witness ==
    /\ arg[1] # None
    /\ Len(sent[1]) = frame_count(arg[1])
    /\ arg[1].start_delay > 0
    /\ \E k \in 1 .. Len(sent[1]) : InLeadIn(arg[1], k - 1)
    /\ \E k \in 1 .. Len(sent[1]) :
          /\ FracLess(Zero, sent[1][k])
          /\ FracLess(sent[1][k], One)
    /\ \E k \in 1 .. Len(sent[1]) :
          ~InLeadIn(arg[1], k - 1) /\ ~InActive(arg[1], k - 1)

\* C5 as stated: with animation_duration = 0 nothing divides by zero and
\* every frame of the run is given progress 0.
C5_ZeroLengthAllZero ==
    \A w \in Workers :
        (Started(w) /\ arg[w].animation_duration = 0) =>
            /\ failed[w] # "zero_division"
            /\ \A k \in 1 .. Len(sent[w]) : FracEq(sent[w][k], Zero)

\* C5 amended: with animation_duration = 0 nothing divides by zero (the
\* dividing branch is never taken and frame_count is positive); a frame
\* sampled before start_delay is given 0.0 and every other frame 1.0, so
\* with the three durations all 0 every frame is given 1.0.
C5_ZeroLengthStepsFromZeroToOne ==
    \A w \in Workers :
        (Started(w) /\ arg[w].animation_duration = 0) =>
            /\ failed[w] # "zero_division"
            /\ frame_count(arg[w]) > 0
            /\ \A k \in 1 .. Len(sent[w]) :
                  /\ IsFraction(sent[w][k])
                  /\ InLeadIn(arg[w], k - 1) => FracEq(sent[w][k], Zero)
                  /\ ~InLeadIn(arg[w], k - 1) => FracEq(sent[w][k], One)
                  /\ total_time(arg[w]) = 0 => FracEq(sent[w][k], One)

\* C5's case: the three durations all 0 and the loop run to its tenth frame.
C5_Witness ==
    /\ arg[1] # None
    /\ arg[1].animation_duration = 0
    /\ total_time(arg[1]) = 0
    /\ Len(sent[1]) = 10
    /\ pc[1] # "capture"
    /\ failed[1] = "none"

HoldsSession(w) == driver[w] = "open" /\ pc[w] # "done"

\* C6: under any interleaving of start_conversion calls and worker threads
\* at most one run is inside convert_svg_to_gif holding a renderer session.
C6_AtMostOneRunHoldsASession ==
    Cardinality({w \in Workers : HoldsSession(w)}) <= 1

\* C7: a run that opened a renderer session has closed it when it ends, and
\* on failure before the -1 signal is emitted.
C7_SessionClosedWhenRunEnds ==
    \A w \in Workers :
        (pc[w] \in {"finally", "done"} /\ driver[w] # "none")
            => driver[w] = "closed"

\* C8: once every run has ended, failed or not, nothing of the scratch area
\* remains: no frame file, no temp.html, no temp_frames directory.
C8_ScratchRemovedWhenRunsEnd ==
    ((\A w \in Workers : pc[w] \in {"idle", "done"})
        /\ (\E w \in Workers : pc[w] = "done"))
        => (~temp_dir /\ ~temp_html /\ frame_files = {})

CaptureFailures == {"set_progress", "screenshot", "zero_division"}

\* C9: a failure of set-progress or of the screenshot at any frame stops
\* the capture loop, is reported with -1 and leaves no artifact written;
\* the encoder is reached only with all frame_count frames captured.
C9_NoPartialArtifact ==
    \A w \in Workers :
        /\ failed[w] \in CaptureFailures =>
              /\ pc[w] \in {"finally", "done"}
              /\ frames[w] < frame_count(arg[w])
              /\ images[w] = 0
              /\ ~gif[w]
              /\ Len(signals[w]) > 0
              /\ Last(signals[w]) = -1
        /\ (pc[w] \in {"process", "save", "cleanup", "complete"} \/ gif[w]) =>
              /\ frames[w] = frame_count(arg[w])
              /\ Len(sent[w]) = frame_count(arg[w])
              /\ failed[w] \notin CaptureFailures

\* C9's case: a run whose screenshot failed after some frames were captured,
\* and which has ended.
C9_Witness ==
    \E w \in Workers :
        /\ failed[w] = "screenshot"
        /\ frames[w] > 0
        /\ pc[w] = "done"

Terminal(p) == p = 100 \/ p < 0
Ended(w) == pc[w] \in {"finally", "done"}

\* C10: a run that returns has emitted exactly one terminal signal, 100 or a
\* negative value, as its last signal; 100 only with the artifact written;
\* every other signal lies in 0 .. 99.
C10_OneTerminalSignal ==
    \A w \in Workers :
        /\ \A k \in 1 .. Len(signals[w]) :
              /\ Terminal(signals[w][k]) \/ signals[w][k] \in 0 .. 99
              /\ Terminal(signals[w][k]) => (k = Len(signals[w]) /\ Ended(w))
              /\ signals[w][k] = 100 => (gif[w] /\ failed[w] = "none")
        /\ Ended(w) =>
              /\ Len(signals[w]) > 0
              /\ Terminal(Last(signals[w]))
              /\ failed[w] # "none" => Last(signals[w]) < 0

\* C10's case: one run has returned after 100 and another after -1.
C10_Witness ==
    \E v, w \in Workers :
        /\ pc[v] = "done"
        /\ pc[w] = "done"
        /\ Last(signals[v]) = 100
        /\ Last(signals[w]) = -1


\* C11: the capture loop issues one progress report after each captured
\* frame; the k-th report is floor(50 * k / frame_count), so the reports
\* never decrease, all lie in 0 .. 50, and the last frame's report is 50.
C11_CaptureReports ==
    \A w \in Workers :
        Started(w) =>
            /\ Len(signals[w]) >= frames[w]
            /\ pc[w] = "capture" => Len(signals[w]) = frames[w]
            /\ \A k \in 1 .. frames[w] :
                  LET v == signals[w][k]
                      fc == frame_count(arg[w])
                  IN  /\ v \in 0 .. 50
                      /\ v * fc <= 50 * k
                      /\ 50 * k < (v + 1) * fc
                      /\ k > 1 => signals[w][k - 1] <= v
                      /\ k = fc => v = 50

\* C11's case: a loop of more than ten frames run to its end, every frame
\* reported and the last report 50.
C11_Witness ==
    /\ arg[1] # None
    /\ frame_count(arg[1]) = 16
    /\ frames[1] = 16
    /\ Len(signals[1]) = 16
    /\ signals[1][1] = 3
    /\ signals[1][16] = 50

\* C12: in the image sequence handed to the encoder, any two adjacent images
\* differ in at least one pixel, whatever the delays and fades, and even
\* when the captured stills are bit-identical.
C12_AdjacentFramesDiffer ==
    \A w \in Workers :
        encoded[w] # NoCall =>
            \A k \in 1 .. Len(encoded[w].images) - 1 :
                ~SamePixels(encoded[w].images[k], encoded[w].images[k + 1])

\* The images of worker w have been through _apply_fade_effect.
Faded(w) == pixels[w] # <<>> /\ fade_requested(arg[w])

\* p is the fraction a / b.
FracIs(p, a, b) == IsFraction(p) /\ p.num * b = a * p.den

\* C13: _apply_fade_effect gives frame i of N the opacity 0 in the lead-in
\* window, the ramp 0 to 1 across the fade-in window, 1 in the steady region,
\* the ramp 1 to 0 across the fade-out window, and 0 for the frames of the
\* lead-out window; the opacity is always within [0, 1].
C13_OpacityByWindow ==
    \A w \in Workers :
        Faded(w) =>
            LET s == arg[w]
                N == Len(pixels[w])
                L == start_delay_frames(s)
                Fi == fade_in_frames(s)
                Fo == fade_out_frames(s)
                E == end_delay_frames(s)
            IN  \A k \in 1 .. N :
                    LET f == k - 1
                        op == pixels[w][k].opacity
                    IN  /\ IsFraction(op) /\ FracLeq(Zero, op) /\ FracLeq(op, One)
                        /\ f < L => op = Zero
                        /\ (L <= f /\ f < L + Fi) => FracIs(op, f - L, Fi)
                        /\ (N - E - Fo <= f /\ f < N - E) =>
                              FracIs(op, Fo - (f - (N - E - Fo)), Fo)
                        /\ f >= N - E => op = Zero
                        /\ (L + Fi <= f /\ f < N - E - Fo) => op = One

\* What the chain of _apply_fade_effect decides: the windows are tried in
\* the order lead-in, fade-in, lead-out, fade-out and the first that holds
\* the frame wins, so a frame of the fade-in window is on the fade-in ramp
\* even where that window reaches into the fade-out or lead-out window.
OpacityByFirstWindow ==
    \A w \in Workers :
        Faded(w) =>
            LET s == arg[w]
                N == Len(pixels[w])
                L == start_delay_frames(s)
                Fi == fade_in_frames(s)
                Fo == fade_out_frames(s)
                E == end_delay_frames(s)
            IN  \A k \in 1 .. N :
                    LET f == k - 1
                        op == pixels[w][k].opacity
                    IN  /\ IsFraction(op) /\ FracLeq(Zero, op) /\ FracLeq(op, One)
                        /\ f < L => op = Zero
                        /\ (L <= f /\ f < L + Fi) => FracIs(op, f - L, Fi)
                        /\ (L + Fi <= f /\ N - E - Fo <= f /\ f < N - E) =>
                              FracIs(op, Fo - (f - (N - E - Fo)), Fo)
                        /\ (L + Fi <= f /\ f >= N - E) => op = Zero
                        /\ (L + Fi <= f /\ f < N - E - Fo) => op = One

\* A fade-in window that reaches into the lead-out window, whose last frame
\* is composited on the fade-in ramp and not at opacity 0; the run also has
\* a lead-in frame at 0.
FadeInOverLeadOut ==
    /\ Faded(1)
    /\ LET s == arg[1]
           N == Len(pixels[1])
       IN  /\ start_delay_frames(s) > 0
           /\ end_delay_frames(s) > 0
           /\ start_delay_frames(s) + fade_in_frames(s) >= N
           /\ pixels[1][1].opacity = Zero
           /\ FracLess(Zero, pixels[1][N].opacity)
           /\ FracLess(pixels[1][N].opacity, One)

\* C14: in a run with fade_in = 0, whatever fade_out is (0 included), the
\* encoded frames of a nonzero lead-in window are at opacity 0, the pure
\* background colour, and the frames after it up to the fade-out and
\* lead-out windows are the unmodified stills.
C14_LeadInIsBackground ==
    \A w \in Workers :
        (encoded[w] # NoCall /\ arg[w].fade_in_duration = 0) =>
            LET s == arg[w]
                imgs == encoded[w].images
                N == Len(imgs)
            IN  \A k \in 1 .. N :
                    /\ k - 1 < start_delay_frames(s) =>
                          /\ imgs[k].opacity = Zero
                          /\ imgs[k].body = White
                          /\ imgs[k].last = White
                    /\ (/\ k - 1 >= start_delay_frames(s)
                        /\ k - 1 < N - end_delay_frames(s) - fade_out_frames(s)) =>
                          /\ imgs[k].opacity = One
                          /\ SamePixels(imgs[k], perturbed(s.svg_file, k - 1))

\* Worker w's run has reported 100: it has succeeded.
Succeeded(w) == signals[w] # <<>> /\ Last(signals[w]) = 100

\* C15: every successful run has encoded its artifact, and an artifact is
\* encoded from exactly frame_count images and as many durations, each the
\* settings' frame_duration_ms, with loop 0 (repeat for ever), the optimizer
\* off and disposal 2 (replace the whole frame).
C15_EncoderArguments ==
    \A w \in Workers :
        /\ Succeeded(w) => encoded[w] # NoCall
        /\ encoded[w] # NoCall =>
              /\ Len(encoded[w].images) = frame_count(arg[w])
              /\ Len(encoded[w].duration) = Len(encoded[w].images)
              /\ \A k \in 1 .. Len(encoded[w].duration) :
                    encoded[w].duration[k] = frame_duration_ms(arg[w])
              /\ encoded[w].loop = 0
              /\ encoded[w].optimize = FALSE
              /\ encoded[w].disposal = 2

\* C15's case: a successful run of more than ten frames that went through
\* the fade, its sixteen images encoded at 100 ms each.
C15_Witness ==
    /\ Succeeded(1)
    /\ fade_requested(arg[1])
    /\ encoded[1] # NoCall
    /\ Len(encoded[1].images) = 16
    /\ encoded[1].duration[16] = 100

\* C16: whatever the user has done in the view, the fps of the settings
\* handed to a conversion run lies in 5 .. 30.
C16_RunFpsInRange ==
    \A w \in Workers :
        arg[w] # None => (MinFps <= arg[w].fps /\ arg[w].fps <= MaxFps)

\* The text under analysis, and the values it declares, each converted by
\* its unit: the CSS durations, the CSS delays, the SMIL durs.
Text == analysis.file.content
Declared(text, props) ==
    { seconds(text[k]) :
        k \in { j \in 1 .. Len(text) :
                  text[j].prop \in props /\ HasDigits(text[j].num) } }

\* Every CSS time of the text is written with its unit, s or ms, and every
\* SMIL dur with a digit before the point.
Unitful(text) ==
    \A k \in 1 .. Len(text) :
        HasDigits(text[k].num) =>
            IF text[k].prop = "dur"
            THEN text[k].num.whole >= 0
            ELSE text[k].unit \in {"s", "ms"}

\* C17: the detected length is the greatest declared CSS duration (0 if
\* none) plus the greatest declared animation-delay (0 if none), raised to
\* the greatest SMIL dur when that is larger, ms values divided by 1000
\* (and 1.0 s when all that is 0); a second call on the same text returns
\* the same (length, has_delays).
C17_EffectiveLength ==
    /\ \A n \in 1 .. Len(analysis.detections) :
          Unitful(Text) =>
              LET raw == Max(MaxOver(Declared(Text, {"animation",
                                                     "animation-duration"}))
                             + MaxOver(Declared(Text, {"animation-delay"})),
                             MaxOver(Declared(Text, {"dur"})))
              IN  analysis.detections[n].total_duration
                      = IF raw = 0 THEN UsPerSecond ELSE raw
    /\ Len(analysis.detections) = 2 =>
          /\ analysis.detections[1].total_duration
                = analysis.detections[2].total_duration
          /\ analysis.detections[1].has_delays
                = analysis.detections[2].has_delays

\* C18: detection of a text with nothing to find (empty, no timing
\* declaration, or none that is well formed) returns 1.0 s and no delays,
\* and when the file cannot be parsed the length defaults to that same
\* 1.0 s.
C18_DefaultsToOneSecond ==
    /\ \A n \in 1 .. Len(analysis.detections) :
          (\A k \in 1 .. Len(Text) :
              ~(css_match(Text[k]) \/ delay_match(Text[k])
                \/ delay_point_match(Text[k]) \/ smil_match(Text[k]))) =>
              /\ analysis.detections[n].total_duration = UsPerSecond
              /\ ~analysis.detections[n].has_delays
    /\ (/\ analysis.optimal # <<>>
        /\ analysis.file.kind = "svg"
        /\ ~analysis.file.readable) =>
          analysis.optimal[1] = MsPerSecond

\* C18, amended: detection of a text in which no pattern matches returns
\* 1.0 s and no delays; when the SVG file cannot be read,
\* calculate_optimal_settings answers 1.65 s and 20 fps, not 1.0 s.
C18_FallbackAndDefault ==
    /\ \A n \in 1 .. Len(analysis.detections) :
          (\A k \in 1 .. Len(Text) :
              ~(css_match(Text[k]) \/ delay_match(Text[k])
                \/ delay_point_match(Text[k]) \/ smil_match(Text[k]))) =>
              /\ analysis.detections[n].total_duration = UsPerSecond
              /\ ~analysis.detections[n].has_delays
    /\ (/\ analysis.optimal # <<>>
        /\ analysis.file.kind = "svg"
        /\ ~analysis.file.readable) =>
          analysis.optimal = <<1650, 20>>

\* C18's case: a file that cannot be read has been analysed.
C18_Witness ==
    /\ analysis.file.kind = "svg"
    /\ ~analysis.file.readable
    /\ analysis.optimal = <<1650, 20>>

\* C19: the greatest delay is that of the declared animation-delay values,
\* each converted by its unit (ms divided by 1000, s as is), the form with
\* no digit before the point included; has_delays is set exactly when an
\* animation-delay declaration was found.
C19_DelayUnits ==
    \A n \in 1 .. Len(analysis.detections) :
        Unitful(Text) =>
            /\ analysis.detections[n].max_delay
                  = MaxOver(Declared(Text, {"animation-delay"}))
            /\ analysis.detections[n].has_delays
                  <=> (Declared(Text, {"animation-delay"}) # {})

\* C20: a run opens one webdriver session, as its first call; the
\* set-progress calls are for the frame indices 0, 1, 2, ... in that order,
\* each below frame_count and each followed at once by the screenshot of the
\* same index; nothing is called after quit; and a run that has left the
\* loop without failing has set and captured every index once.
C20_OneOrderedStream ==
    \A w \in Workers :
        LET L == log[w]
            n == Len(L)
            fc == frame_count(arg[w])
        IN  /\ driver[w] # "none" <=> n > 0
            /\ n > 0 => L[1] = Call("open", -1)
            /\ driver[w] = "closed" <=> (n > 0 /\ L[n] = Call("quit", -1))
            /\ driver[w] = "closed" => n = 2 * fc + 2
            /\ \A j \in 2 .. n :
                  \/ j = n /\ L[j] = Call("quit", -1)
                  \/ j % 2 = 0 /\ j \div 2 <= fc
                       /\ L[j] = Call("set", (j - 2) \div 2)
                  \/ j % 2 = 1 /\ L[j] = Call("shot", (j - 3) \div 2)

\* C20's case: a run that has ended well, its one session opened, given
\* ten set-progress calls each with its screenshot, and closed.
C20_Witness ==
    /\ pc[1] = "done"
    /\ Succeeded(1)
    /\ Len(log[1]) = 22
    /\ log[1][1] = Call("open", -1)
    /\ log[1][20] = Call("set", 9)
    /\ log[1][21] = Call("shot", 9)
    /\ log[1][22] = Call("quit", -1)

\* C21: _apply_fade_effect never divides by zero.  A fade-in or fade-out
\* window of no frames has no ramp: no run fails in the fade by a division,
\* every opacity given is a number, and the frames next to an empty window
\* have the opacity of the region beside it (1 in the steady region, and
\* only 0 or 1 anywhere when both windows are empty), also when the windows
\* together are longer than the sequence.
C21_FadeNeverDividesByZero ==
    \A w \in Workers :
        /\ failed[w] # "fade_zero_division"
        /\ Faded(w) =>
              LET s == arg[w]
                  N == Len(pixels[w])
                  L == start_delay_frames(s)
                  Fi == fade_in_frames(s)
                  Fo == fade_out_frames(s)
                  E == end_delay_frames(s)
              IN  \A k \in 1 .. N :
                      LET f == k - 1
                          op == pixels[w][k].opacity
                      IN  /\ IsFraction(op)
                          /\ (Fi = 0 /\ L <= f /\ f < N - E - Fo) => op = One
                          /\ (Fo = 0 /\ L + Fi <= f /\ f < N - E) => op = One
                          /\ (Fi = 0 /\ Fo = 0) => op \in {Zero, One}

\* C21's case: a fade-in shorter than one frame and no fade-out, after a
\* lead-in of one frame: the compositor has run, and the frame after the
\* lead-in is at opacity 1.
C21_Witness ==
    /\ Faded(1)
    /\ arg[1].fade_in_duration > 0
    /\ fade_in_frames(arg[1]) = 0
    /\ fade_out_frames(arg[1]) = 0
    /\ start_delay_frames(arg[1]) = 1
    /\ end_delay_frames(arg[1]) > 0
    /\ pixels[1][1].opacity = Zero
    /\ pixels[1][2].opacity = One
    /\ failed[1] = "none"

\* Worker w's run is between its entry (the flag set) and its exit (the
\* flag reset in the finally clause).
Inside(w) == pc[w] \notin {"idle", "entry", "done"}

\* C22: is_converting is set only while a run is between its entry and its
\* exit; every step by which a run returns, after success or after any
\* failure, leaves it reset; and a start_conversion that finds it reset, as
\* any does once the runs have ended, is accepted: no warning, a new run.
C22_FlagFollowsRuns ==
    [][ /\ is_converting' => \E w \in Workers : Inside(w)'
        /\ \A w \in Workers :
              (pc[w] = "finally" /\ pc'[w] = "done") => ~is_converting'
        /\ (calls' = calls + 1 /\ ~is_converting) =>
              /\ warnings' = warnings
              /\ pc'[calls'] = "entry"
      ]_vars

\* C22's case: the first run has failed and returned, the flag is reset,
\* and a start_conversion made after that has been accepted.
C22_Witness ==
    /\ pc[1] = "done"
    /\ failed[1] # "none"
    /\ pc[2] = "entry"
    /\ ~is_converting
    /\ calls = 2
    /\ warnings = 0

\* C23: whatever the file is, the frame rate calculate_optimal_settings
\* returns is a whole number of at least 1, so that the view's
\* total_frames / fps has a divisor other than zero.
C23_OptimalFpsAtLeastOne ==
    analysis.optimal # <<>> => analysis.optimal[2] >= 1

\* Frame k (from 0) of settings s is sampled in the lead-out: at or after
\* the end of the active part, the branch of the capture loop that holds the
\* progress at 1.
InLeadOut(s, k) ==
    (s.start_delay + s.animation_duration) * frame_count(s) <= k * total_time(s)

\* C24: the capture loop and the fade compositor agree on the lead windows:
\* for every frame index of a faded run, the loop samples the frame in the
\* lead-in (i * total_time / frame_count < start_delay) exactly when the
\* compositor places it in its lead-in window (i < int(start_delay * fps)),
\* and samples it in the lead-out exactly when the compositor places it in
\* its lead-out window (i >= N - int(end_delay * fps)).
C24_LeadWindowsAgree ==
    \A w \in Workers :
        Faded(w) =>
            LET s == arg[w]
                N == Len(pixels[w])
            IN  \A k \in 0 .. N - 1 :
                    /\ InLeadIn(s, k) <=> k < start_delay_frames(s)
                    /\ InLeadOut(s, k) <=> k >= N - end_delay_frames(s)

=========================================================================
